---- MODULE Spec2Model ----
(***************************************************************************)
(* Model of parse_payroll_pdf (src/becycle_invoice.py): the line scanner   *)
(* that turns the text lines of a classes report into payroll records.     *)
(* Lines are strings; the regular expressions and string methods of the    *)
(* source are operators over the characters of a line.  None is <<>> and   *)
(* a set value v is <<v>>.  main_pc, message and session are the state of  *)
(* main, the button handler that calls the scanner and stores the          *)
(* documents made from its records.  The currency symbol U+20AC is         *)
(* written "$" in every line and pattern: TLC keeps only 7-bit characters  *)
(* in the states it writes to disk, and "$" occurs nowhere else.           *)
(***************************************************************************)
EXTENDS Integers, Sequences, FiniteSets, TLC

VARIABLES lines, i, current_date, current_record, records, pc,
          main_pc, message, session

vars == <<lines, i, current_date, current_record, records, pc,
          main_pc, message, session>>

\* Longest input drawn from Pool.
MaxLines == 4

\* Longest run of lines drawn from LookaheadPool or ContinuationPool after
\* their prefix.
MaxTail == 4

None == <<>>
Some(v) == <<v>>

-----------------------------------------------------------------------------
(* Characters and string methods *)

Ch(s, k) == IF k \in 1..Len(s) THEN SubSeq(s, k, k) ELSE ""

IsSpace(c) == c \in {" ", "\t"}
NotSpace(c) == c # "" /\ ~IsSpace(c)
IsDigit(c) == c \in {"0", "1", "2", "3", "4", "5", "6", "7", "8", "9"}
IsAmountChar(c) == IsDigit(c) \/ c \in {".", ","}
\* The currency symbol of the source.
Euro == "$"
NotEuro(c) == c # "" /\ c # Euro

MinOf(S) == CHOOSE m \in S : \A n \in S : m <= n
MaxOf(S) == CHOOSE m \in S : \A n \in S : m >= n

\* The positions of s whose character is a digit, a blank, and so on.
Digits(s) == {j \in 1..Len(s) : IsDigit(Ch(s, j))}
Spaces(s) == {j \in 1..Len(s) : IsSpace(Ch(s, j))}
NonSpaces(s) == {j \in 1..Len(s) : NotSpace(Ch(s, j))}
AmountChars(s) == {j \in 1..Len(s) : IsAmountChar(Ch(s, j))}
NonEuros(s) == {j \in 1..Len(s) : NotEuro(Ch(s, j))}

\* Index of the last character of the run of positions of P starting at k
\* (k - 1 when the run is empty): what a greedy \d+, \s* or [\d.,]+ takes.
RunEnd(s, k, P) ==
    LET stop == (k..Len(s)) \ P
    IN IF stop = {} THEN Len(s) ELSE MinOf(stop) - 1

From(s, k) == SubSeq(s, k, Len(s))

Strip(s) ==
    LET keep == {k \in 1..Len(s) : ~IsSpace(Ch(s, k))}
    IN IF keep = {} THEN "" ELSE SubSeq(s, MinOf(keep), MaxOf(keep))

StartsWith(s, p) == Len(s) >= Len(p) /\ SubSeq(s, 1, Len(p)) = p
EndsWith(s, p) == Len(s) >= Len(p) /\ SubSeq(s, Len(s) - Len(p) + 1, Len(s)) = p

\* s.split(): the whitespace-separated words of s.
RECURSIVE Words(_)
Words(s) ==
    LET t == Strip(s)
        e == RunEnd(t, 1, NonSpaces(t))
    IN IF t = "" THEN <<>> ELSE <<SubSeq(t, 1, e)>> \o Words(From(t, e + 1))

\* " ".join(ws)
RECURSIVE Join(_)
Join(ws) ==
    IF ws = <<>> THEN ""
    ELSE IF Len(ws) = 1 THEN ws[1]
    ELSE ws[1] \o " " \o Join(Tail(ws))

\* s.split(maxsplit=1): first word and, when there is one, the remainder.
SplitFirstWord(s) ==
    LET t == Strip(s)
        e == RunEnd(t, 1, NonSpaces(t))
        rem == Strip(From(t, e + 1))
    IN IF t = "" THEN <<>>
       ELSE IF rem = "" THEN <<SubSeq(t, 1, e)>>
       ELSE <<SubSeq(t, 1, e), From(t, RunEnd(t, e + 1, Spaces(t)) + 1)>>

\* s.split(" ", 1): cut at the first blank.
SplitFirstBlank(s) ==
    LET blanks == {k \in 1..Len(s) : Ch(s, k) = " "}
    IN IF blanks = {} THEN <<s>>
       ELSE <<SubSeq(s, 1, MinOf(blanks) - 1), From(s, MinOf(blanks) + 1)>>

\* s.split(Euro)
RECURSIVE SplitEuro(_)
SplitEuro(s) ==
    LET e == RunEnd(s, 1, NonEuros(s))
    IN IF e = Len(s) THEN <<s>>
       ELSE <<SubSeq(s, 1, e)>> \o SplitEuro(From(s, e + 2))

DigitVal(c) == CHOOSE d \in 0..9 : Ch("0123456789", d + 1) = c

\* int(s) for a string of decimal digits.
RECURSIVE ParseInt(_)
ParseInt(s) ==
    IF s = "" THEN 0
    ELSE ParseInt(SubSeq(s, 1, Len(s) - 1)) * 10 + DigitVal(Ch(s, Len(s)))

\* sys.int_info.default_max_str_digits of CPython: int() of a longer string
\* of digits raises ValueError.
int_max_str_digits == 4300

\* int(s) raises ValueError.
IntError(s) ==
    \/ s = ""
    \/ Len(s) > int_max_str_digits
    \/ \E k \in 1..Len(s) : ~IsDigit(Ch(s, k))

-----------------------------------------------------------------------------
(* Regular expressions of the scanner *)

\* re.match(r"\d{1,2}\.\d{2}\.\d{4}$", s)
MatchDate(s) ==
    LET e == RunEnd(s, 1, Digits(s))
    IN /\ e \in {1, 2}
       /\ Len(s) = e + 8
       /\ Ch(s, e + 1) = "." /\ Ch(s, e + 4) = "."
       /\ \A k \in {e + 2, e + 3, e + 5, e + 6, e + 7, e + 8} : IsDigit(Ch(s, k))

\* re.match(r"^\d{1,2}:\d{2}", line)
MatchTime(line) ==
    LET e == RunEnd(line, 1, Digits(line))
    IN /\ e \in {1, 2}
       /\ Ch(line, e + 1) = ":"
       /\ IsDigit(Ch(line, e + 2)) /\ IsDigit(Ch(line, e + 3))

\* re.match(r"\(\d+\)\s*$", s)
MatchCapacity(s) ==
    LET e == RunEnd(s, 2, Digits(s))
    IN /\ Ch(s, 1) = "("
       /\ e >= 2
       /\ Ch(s, e + 1) = ")"
       /\ RunEnd(s, e + 2, Spaces(s)) = Len(s)

\* re.search(r"\(\d+\)\s*$", line)
SearchCapacity(line) == \E k \in 1..Len(line) : MatchCapacity(From(line, k))

\* r"\d+\s*/\s*\d+\s*/\s*\d+" tried at position k of s.
TripleAt(s, k) ==
    LET e1 == RunEnd(s, k, Digits(s))
        s1 == RunEnd(s, e1 + 1, Spaces(s)) + 1
        b2 == RunEnd(s, s1 + 1, Spaces(s)) + 1
        e2 == RunEnd(s, b2, Digits(s))
        s2 == RunEnd(s, e2 + 1, Spaces(s)) + 1
        b3 == RunEnd(s, s2 + 1, Spaces(s)) + 1
        e3 == RunEnd(s, b3, Digits(s))
    IN IF /\ e1 >= k /\ Ch(s, s1) = "/"
          /\ e2 >= b2 /\ Ch(s, s2) = "/"
          /\ e3 >= b3
       THEN [ok |-> TRUE, g1 |-> SubSeq(s, k, e1), g2 |-> SubSeq(s, b2, e2),
             g3 |-> SubSeq(s, b3, e3), end |-> e3]
       ELSE [ok |-> FALSE, g1 |-> "", g2 |-> "", g3 |-> "", end |-> 0]

\* re.search(r"\d+\s*/\s*\d+\s*/\s*\d+", line)
SearchTriple(line) == \E k \in 1..Len(line) : TripleAt(line, k).ok

\* bn_match.start(), as a 1-based position: the leftmost match.
TripleStart(line) ==
    CHOOSE k \in 1..Len(line) :
        TripleAt(line, k).ok /\ \A j \in 1..(k - 1) : ~TripleAt(line, j).ok

\* r"([\d.,]+)\s*" followed by the currency symbol, tried at position k of
\* s: the position of the currency symbol, or 0.
AmountAt(s, k) ==
    LET e == RunEnd(s, k, AmountChars(s))
        p == RunEnd(s, e + 1, Spaces(s)) + 1
    IN IF e >= k /\ Ch(s, p) = Euro THEN p ELSE 0

\* re.findall of the amount pattern in s from position pos on.
RECURSIVE FindAmounts(_, _)
FindAmounts(s, pos) ==
    LET starts == {k \in pos..Len(s) : AmountAt(s, k) > 0}
        k == MinOf(starts)
    IN IF starts = {} THEN <<>>
       ELSE <<SubSeq(s, k, RunEnd(s, k, AmountChars(s)))>>
                \o FindAmounts(s, AmountAt(s, k) + 1)

\* [p.strip() for p in ps if p.strip()]
RECURSIVE StripNonEmpty(_)
StripNonEmpty(ps) ==
    IF ps = <<>> THEN <<>>
    ELSE IF Strip(Head(ps)) = "" THEN StripNonEmpty(Tail(ps))
    ELSE <<Strip(Head(ps))>> \o StripNonEmpty(Tail(ps))

-----------------------------------------------------------------------------
(* The scanner: one loop iteration of parse_payroll_pdf *)

day_names == {"Monday", "Tuesday", "Wednesday", "Thursday", "Friday",
              "Saturday", "Sunday"}

skip_lines == {"Time Event Type", "Time", "Event Type", "Studio",
               "B / A /", "B / A / N*", "N*",
               "Base Bonus Total", "Base", "Bonus", "Total",
               "Bookings Attended No-shows Base Bonus Total",
               "Bookings", "Attended", "No-shows"}

\* The scanner's locals after an iteration: cursor, date, record, output.
Scan(ii, d, c, r) == [i |-> ii, date |-> d, cur |-> c, recs |-> r]

\* The iteration raised an exception: the scan ends without a result.
Raise(ii, d, c, r) == [i |-> ii, date |-> d, cur |-> c, recs |-> r, raised |-> TRUE]
Raised(st) == "raised" \in DOMAIN st

\* Python truth value of current_date (None and "" are false).
Truthy(d) == d # None /\ d[1] # ""

\* lines[j].strip() for the 0-based cursor j, "" past the end.
LineAt(j) == IF j < Len(lines) THEN Strip(lines[j + 1]) ELSE ""

\* Variant: a line that holds a triple is not taken as a weekday header.
IsDayHeaderTripleLater(line) ==
    LET parts == SplitFirstWord(line)
    IN parts # <<>> /\ parts[1] \in day_names /\ ~SearchTriple(line)

\* parts and parts[0] in day_names
IsDayHeader(line) ==
    LET parts == SplitFirstWord(line)
    IN parts # <<>> /\ parts[1] \in day_names

\* Variant: the date is read from the following line, which is left for the
\* main loop.
OnHeaderNoConsume(line, j, r) ==
    LET parts == SplitFirstWord(line)
        date_str == IF Len(parts) > 1 THEN parts[2] ELSE ""
        peek == (date_str = "" \/ ~MatchDate(date_str))
                  /\ j < Len(lines) /\ MatchDate(LineAt(j))
    IN Scan(j, Some(IF peek THEN LineAt(j) ELSE date_str), None, r)

\* The weekday header branch; j is the cursor after the header line.
OnHeader(line, j, r) ==
    LET parts == SplitFirstWord(line)
        date_str == IF Len(parts) > 1 THEN parts[2] ELSE ""
        peek == (date_str = "" \/ ~MatchDate(date_str))
                  /\ j < Len(lines) /\ MatchDate(LineAt(j))
    IN Scan(IF peek THEN j + 1 ELSE j,
            Some(IF peek THEN LineAt(j) ELSE date_str),
            None, r)

\* Variant: a "Totals:" line commits the record in progress.
OnTotalsCommit(j, d, c, r) ==
    Scan(j, None, None, IF c # None THEN Append(r, c[1]) ELSE r)

\* Variant: the record in progress survives a "Totals:" line.
OnTotalsKeepRecord(j, d, c, r) == Scan(j, None, c, r)

\* Variant: the date survives a "Totals:" line.
OnTotalsKeepDate(j, d, c, r) == Scan(j, d, None, r)

\* The "Totals:" branch.
OnTotals(j, d, c, r) == Scan(j, None, None, r)

\* Variant: a new record starts with zero bookings.
NewRecordZeroB(line, d) ==
    LET parts_time == SplitFirstBlank(line)
    IN [date |-> d[1],
        time |-> parts_time[1],
        event |-> IF Len(parts_time) > 1 THEN Strip(parts_time[2]) ELSE "",
        studio |-> "",
        B |-> Some(0), A |-> None, N |-> None, total |-> None]

\* The record opened by a time-stamp line.
NewRecord(line, d) ==
    LET parts_time == SplitFirstBlank(line)
    IN [date |-> d[1],
        time |-> parts_time[1],
        event |-> IF Len(parts_time) > 1 THEN Strip(parts_time[2]) ELSE "",
        studio |-> "",
        B |-> None, A |-> None, N |-> None, total |-> None]

\* Variant: a time-stamp line that finds no pre-triple record appends the
\* last committed record again.
TimeStampRecordsDup(c, r) ==
    IF c # None /\ c[1].B = None THEN Append(r, c[1])
    ELSE IF r # <<>> THEN Append(r, r[Len(r)]) ELSE r

\* The output list after a time-stamp line met the current record c.
TimeStampRecords(c, r) ==
    IF c # None /\ c[1].B = None THEN Append(r, c[1]) ELSE r

\* The time-stamp branch.
OnTimeStamp(line, j, d, c, r) ==
    Scan(j, d, Some(NewRecord(line, d)), TimeStampRecords(c, r))

\* Variant: the duplicate test compares the first two words.
SplitCapacityFirstTwo(line) ==
    LET cap_idx == MaxOf({k \in 1..Len(line) : Ch(line, k) = "("})
        event_part == Strip(SubSeq(line, 1, cap_idx - 1))
        studio_part == Strip(From(line, cap_idx))
        words == Words(event_part)
        n == Len(words)
        duplicate == IF n >= 2 /\ (words[n] = words[n - 1] \/ words[1] = words[2])
                     THEN Some(words[n]) ELSE None
        kept == IF duplicate # None THEN SubSeq(words, 1, n - 1) ELSE words
    IN [event |-> Join(kept),
        studio |-> IF duplicate # None
                   THEN Strip(duplicate[1] \o " " \o studio_part)
                   ELSE studio_part]

\* Event and studio of a line ending with a capacity marker.
SplitCapacity(line) ==
    LET cap_idx == MaxOf({k \in 1..Len(line) : Ch(line, k) = "("})
        event_part == Strip(SubSeq(line, 1, cap_idx - 1))
        studio_part == Strip(From(line, cap_idx))
        words == Words(event_part)
        n == Len(words)
        duplicate == IF n >= 2 /\ (words[n] = words[n - 1] \/ words[1] = words[n])
                     THEN Some(words[n]) ELSE None
        kept == IF duplicate # None THEN SubSeq(words, 1, n - 1) ELSE words
    IN [event |-> Join(kept),
        studio |-> IF duplicate # None
                   THEN Strip(duplicate[1] \o " " \o studio_part)
                   ELSE studio_part]

\* The number of lines the currency lookahead consumes from cursor j on.
EuroRun(j) ==
    LET stop == {k \in 0..2 : ~(j + k < Len(lines) /\ EndsWith(LineAt(j + k), Euro))}
    IN IF stop = {} THEN 3 ELSE MinOf(stop)

\* values[k] of the lookahead: line j + k - 1 without its currency symbol.
EuroValue(j, k) ==
    LET val == LineAt(j + k - 1)
    IN Strip(SubSeq(val, 1, Len(val) - 1))

\* Variant: the second amount is taken for the total.
InlineTotalSecond(rest) ==
    LET currency_vals == FindAmounts(rest, 1)
        parts_cur == StripNonEmpty(SplitEuro(rest))
    IN IF Len(currency_vals) >= 3 THEN Some(currency_vals[2])
       ELSE IF Len(parts_cur) >= 3 THEN Some(parts_cur[2])
       ELSE None

\* The total recovered from the text after the triple on the same line.
InlineTotal(rest) ==
    LET currency_vals == FindAmounts(rest, 1)
        parts_cur == StripNonEmpty(SplitEuro(rest))
    IN IF Len(currency_vals) >= 3 THEN Some(currency_vals[3])
       ELSE IF Len(parts_cur) >= 3 THEN Some(parts_cur[3])
       ELSE None

\* Variant: the record is inserted at the front of the list.
CommitFront(r, rec) == <<rec>> \o r

\* Variant: the record is appended twice.
CommitTwice(r, rec) == Append(Append(r, rec), rec)

\* The record appended by the triple branch.
Commit(r, rec) == Append(r, rec)

\* Variant: the committed record stays the current record.
OnTripleKeepCurrent(line, j, d, c, r) ==
    LET idx == TripleStart(line)
        studio_text == Strip(SubSeq(line, 1, idx - 1))
        ba_text == Strip(From(line, idx))
        m == TripleAt(ba_text, 1)
        rest == Strip(From(ba_text, m.end + 1))
        studio == IF studio_text # ""
                  THEN Strip(c[1].studio \o " " \o studio_text)
                  ELSE c[1].studio
        n == EuroRun(j)
        total == IF rest = ""
                 THEN (IF n = 3 THEN Some(EuroValue(j, 3)) ELSE None)
                 ELSE InlineTotal(rest)
        rec == [c[1] EXCEPT !.studio = studio,
                            !.B = Some(ParseInt(m.g1)),
                            !.A = Some(ParseInt(m.g2)),
                            !.N = Some(ParseInt(m.g3)),
                            !.total = total]
    IN IF m.ok /\ (IntError(m.g1) \/ IntError(m.g2) \/ IntError(m.g3))
       THEN Raise(j, d, c, r)
       ELSE IF m.ok
       THEN Scan(IF rest = "" THEN j + n ELSE j, d, Some(rec), Commit(r, rec))
       ELSE Scan(j, d, Some([c[1] EXCEPT !.studio = studio]), r)

\* The triple branch: studio text, B/A/N, total, commit.
OnTriple(line, j, d, c, r) ==
    LET idx == TripleStart(line)
        studio_text == Strip(SubSeq(line, 1, idx - 1))
        ba_text == Strip(From(line, idx))
        m == TripleAt(ba_text, 1)
        rest == Strip(From(ba_text, m.end + 1))
        studio == IF studio_text # ""
                  THEN Strip(c[1].studio \o " " \o studio_text)
                  ELSE c[1].studio
        n == EuroRun(j)
        total == IF rest = ""
                 THEN (IF n = 3 THEN Some(EuroValue(j, 3)) ELSE None)
                 ELSE InlineTotal(rest)
        rec == [c[1] EXCEPT !.studio = studio,
                            !.B = Some(ParseInt(m.g1)),
                            !.A = Some(ParseInt(m.g2)),
                            !.N = Some(ParseInt(m.g3)),
                            !.total = total]
    IN IF m.ok /\ (IntError(m.g1) \/ IntError(m.g2) \/ IntError(m.g3))
       THEN Raise(j, d, c, r)
       ELSE IF m.ok
       THEN Scan(IF rest = "" THEN j + n ELSE j, d, None, Commit(r, rec))
       ELSE Scan(j, d, Some([c[1] EXCEPT !.studio = studio]), r)

\* The branches for a line read while a record is open.
OnContinuation(line, j, d, c, r) ==
    IF StartsWith(line, "(")
    THEN Scan(j, d, Some([c[1] EXCEPT !.event = @ \o " " \o line]), r)
    ELSE IF /\ c[1].event = "" /\ c[1].studio = ""
            /\ ~SearchCapacity(line) /\ ~SearchTriple(line)
    THEN Scan(j, d, Some([c[1] EXCEPT !.event = line]), r)
    ELSE IF /\ c[1].event = "" /\ SearchCapacity(line)
            /\ MatchCapacity(From(line, MaxOf({k \in 1..Len(line) : Ch(line, k) = "("})))
    THEN Scan(j, d, Some([c[1] EXCEPT !.event = SplitCapacity(line).event,
                                      !.studio = SplitCapacity(line).studio]), r)
    ELSE IF SearchTriple(line)
    THEN OnTriple(line, j, d, c, r)
    ELSE Scan(j, d, Some([c[1] EXCEPT !.studio = IF @ # "" THEN Strip(@ \o " " \o line)
                                                 ELSE line]), r)

\* Variant: only blank lines are skipped.
IsSkipBlankOnly(line) == line = ""

\* Blank lines and boilerplate labels.
IsSkip(line) == line = "" \/ line \in skip_lines

\* Variant: the section test is "current_date is not None".
LoopBodyDateNotNone(k, d, c, r) ==
    LET line == LineAt(k)
        j == k + 1
    IN IF IsSkip(line) THEN Scan(j, d, c, r)
       ELSE IF IsDayHeader(line) THEN OnHeader(line, j, r)
       ELSE IF StartsWith(line, "Totals:") THEN OnTotals(j, d, c, r)
       ELSE IF d # None
       THEN (IF MatchTime(line) THEN OnTimeStamp(line, j, d, c, r)
             ELSE IF c # None THEN OnContinuation(line, j, d, c, r)
             ELSE Scan(j, d, c, r))
       ELSE Scan(j, d, c, r)

\* One iteration of the while loop, started with cursor k.
LoopBody(k, d, c, r) ==
    LET line == LineAt(k)
        j == k + 1
    IN IF IsSkip(line) THEN Scan(j, d, c, r)
       ELSE IF IsDayHeader(line) THEN OnHeader(line, j, r)
       ELSE IF StartsWith(line, "Totals:") THEN OnTotals(j, d, c, r)
       ELSE IF Truthy(d)
       THEN (IF MatchTime(line) THEN OnTimeStamp(line, j, d, c, r)
             ELSE IF c # None THEN OnContinuation(line, j, d, c, r)
             ELSE Scan(j, d, c, r))
       ELSE Scan(j, d, c, r)

\* The rule that handles line when the date is d and the record is c: the
\* tests of the loop body in their order.
Branch(line, d, c) ==
    IF line = "" \/ line \in skip_lines THEN "skip"
    ELSE IF SplitFirstWord(line)[1] \in day_names THEN "header"
    ELSE IF StartsWith(line, "Totals:") THEN "totals"
    ELSE IF ~Truthy(d) THEN "outside"
    ELSE IF MatchTime(line) THEN "time"
    ELSE IF c = None THEN "idle"
    ELSE IF StartsWith(line, "(") THEN "paren"
    ELSE IF /\ c[1].event = "" /\ c[1].studio = ""
            /\ ~SearchCapacity(line) /\ ~SearchTriple(line) THEN "event"
    ELSE IF c[1].event = "" /\ SearchCapacity(line) THEN "capacity"
    ELSE IF SearchTriple(line) THEN "triple"
    ELSE "studio"

\* The text after the triple of a line handled by the triple rule.
TripleRest(line) ==
    LET ba_text == Strip(From(line, TripleStart(line)))
    IN Strip(From(ba_text, TripleAt(ba_text, 1).end + 1))

-----------------------------------------------------------------------------
(* Inputs *)

Pool == {"Tuesday 04.02.2025", "Wednesday", "05.02.2025", "Friday soon",
         "18:30 Spin Class", "10/9/1 $ $ 25,50 $", "Totals: 3", "Main Hall"}

ScenarioA == <<"Tuesday 04.02.2025", "18:30 Spin Class",
               "Studio A 10/8/2 5,00 $ 10,00 $ 40,00 $">>
ScenarioB == <<"Wednesday", "05.02.2025", "19:00 Yoga (Beginners)",
               "10/9/1 $ $ 25,50 $">>
ScenarioC == <<"Tuesday 04.02.2025", "20:00", "Pilates Pilates Studio B (12)">>

Scenarios == {ScenarioA, ScenarioB, ScenarioC}

RECURSIVE SeqsUpTo(_, _)
SeqsUpTo(S, n) ==
    IF n = 0 THEN {<<>>}
    ELSE LET shorter == SeqsUpTo(S, n - 1)
         IN shorter \cup {Append(q, x) : q \in {t \in shorter : Len(t) = n - 1}, x \in S}

\* A record is open and its triple line, with nothing after the triple, has
\* been read: the lines that follow exercise the currency lookahead.
LookaheadPrefix == <<"Tuesday 04.02.2025", "20:00 Ride", "10/8/2">>
LookaheadPool == {"5,00 $", "40,00 $", "Main Hall"}

\* A record with empty event and studio is open: the lines that follow
\* exercise the skip rule and the continuation rules.
ContinuationPrefix == <<"Tuesday 04.02.2025", "20:00">>
ContinuationPool == {"Studio", "", "(Cycling)", "Room 1 (12)", "4/5/6 x $ y $ z $"}

\* A record is open: the lines that follow have the shape of a weekday
\* header, a "Totals:" line or a time-stamp line and also hold a triple.
PrecedencePrefix == <<"Tuesday 04.02.2025", "20:00 Ride">>
PrecedencePool == {"Friday 10/9/1", "Totals: 10/9/1", "18:30 10/9/1"}

\* A record is open: the triple lines that follow carry text after the
\* triple, and currency lines follow them.
InlinePrefix == <<"Tuesday 04.02.2025", "20:00 Ride">>
InlinePool == {"1/2/3 x $ 5,00 $ 10,00 $ 40,00 $", "1/2/3 7 $", "5,00 $",
               "18:30 Spin Class"}

Extended(prefix, S) == {prefix \o t : t \in SeqsUpTo(S, MaxTail)}

Inputs ==
    SeqsUpTo(Pool, MaxLines) \cup Scenarios
      \cup Extended(LookaheadPrefix, LookaheadPool)
      \cup Extended(ContinuationPrefix, ContinuationPool)
      \cup Extended(PrecedencePrefix, PrecedencePool)
      \cup Extended(InlinePrefix, InlinePool)

-----------------------------------------------------------------------------
(* The state machine *)

\* st.session_state before any document was generated.
NoArtifacts == [pdf_bytes |-> None, doc_bytes |-> None, xls_bytes |-> None]

\* parse_payroll_pdf is called on the lines of a document.
Init ==
    /\ lines \in Inputs
    /\ i = 0
    /\ current_date = None
    /\ current_record = None
    /\ records = <<>>
    /\ pc = "scan"
    /\ main_pc = "parsing"
    /\ message = None
    /\ session = NoArtifacts

\* while i < len(lines): one iteration.  An iteration that raises ends the
\* call: the locals are lost with the frame and keep their values here.
Step ==
    /\ pc = "scan"
    /\ i < Len(lines)
    /\ \E st \in {LoopBody(i, current_date, current_record, records)} :
          IF Raised(st)
          THEN /\ pc' = "error"
               /\ UNCHANGED <<i, current_date, current_record, records>>
          ELSE /\ i' = st.i
               /\ current_date' = st.date
               /\ current_record' = st.cur
               /\ records' = st.recs
               /\ pc' = pc
    /\ UNCHANGED <<lines, main_pc, message, session>>

\* return records
Return ==
    /\ pc = "scan"
    /\ i >= Len(lines)
    /\ pc' = "done"
    /\ UNCHANGED <<lines, i, current_date, current_record, records>>
    /\ UNCHANGED <<main_pc, message, session>>

Next == Step \/ Return

Spec == Init /\ [][Next]_vars

\* Inputs whose triple line carries a count of int_max_str_digits + 1 digits.
Twice(s) == s \o s
Ones64 == Twice(Twice(Twice(Twice(Twice(Twice("1"))))))
Ones4096 == Twice(Twice(Twice(Twice(Twice(Twice(Ones64))))))
LongCount == Ones4096 \o Twice(Ones64) \o SubSeq(Ones64, 1, 64) \o SubSeq(Ones64, 1, 13)
LongInputs == {<<"Tuesday 04.02.2025", "20:00 Ride", LongCount \o "/1/1",
                 "5,00 $", "10,00 $", "40,00 $">>,
               <<"Tuesday 04.02.2025", "20:00 Ride",
                 LongCount \o "/1/1 x $ 5,00 $ 10,00 $ 40,00 $", "5,00 $">>}

LongInit ==
    /\ lines \in LongInputs \cup Extended(LookaheadPrefix, LookaheadPool)
    /\ i = 0
    /\ current_date = None
    /\ current_record = None
    /\ records = <<>>
    /\ pc = "scan"
    /\ main_pc = "parsing"
    /\ message = None
    /\ session = NoArtifacts

LongSpec == LongInit /\ [][Next]_vars

-----------------------------------------------------------------------------
(* main: the "Generate invoice" button *)

UploadMsg == "Please upload the Classes Report PDF."
ProcessingMsg == "Error processing Classes Report PDF"
MergeMsg == "Error merging PDFs"
NoDataMsg == "No payroll data extracted from Classes Report. Please check the PDF format."
\* Streamlit's report of an exception that main does not catch.
UncaughtMsg == "uncaught exception"

\* The text lines of the reports a user uploads.
Uploads == Scenarios \cup {<<>>, <<"Tuesday 04.02.2025", "20:00 Ride", "1/2/3">>}

\* The bytes of the document of the given kind made from recs.
Artifact(kind, recs) == Some([kind |-> kind, records |-> recs])

\* The first script run: no artifact is stored and nothing is being parsed.
MainInit ==
    /\ lines = <<>>
    /\ i = 0
    /\ current_date = None
    /\ current_record = None
    /\ records = <<>>
    /\ pc = "idle"
    /\ main_pc = "idle"
    /\ message = None
    /\ session = NoArtifacts

\* The button is pressed with no file uploaded.
ClickNoUpload ==
    /\ main_pc = "idle"
    /\ message' = Some(UploadMsg)
    /\ UNCHANGED <<lines, i, current_date, current_record, records, pc,
                   main_pc, session>>

\* The button is pressed with a report whose pages open:
\* parse_payroll_pdf starts on its lines.
ClickParse ==
    /\ main_pc = "idle"
    /\ \E u \in Uploads : lines' = u
    /\ i' = 0
    /\ current_date' = None
    /\ current_record' = None
    /\ records' = <<>>
    /\ pc' = "scan"
    /\ main_pc' = "parsing"
    /\ message' = None
    /\ UNCHANGED session

\* The button is pressed with a file that read() or fitz.open rejects:
\* parse_payroll_pdf raises before it has a line.
ClickUnreadable ==
    /\ main_pc = "idle"
    /\ lines' = <<>>
    /\ i' = 0
    /\ current_date' = None
    /\ current_record' = None
    /\ records' = <<>>
    /\ pc' = "error"
    /\ main_pc' = "parsing"
    /\ message' = None
    /\ UNCHANGED session

\* except Exception: the error is shown and main returns.
ParseError ==
    /\ main_pc = "parsing"
    /\ pc = "error"
    /\ message' = Some(ProcessingMsg)
    /\ main_pc' = "idle"
    /\ UNCHANGED <<lines, i, current_date, current_record, records, pc, session>>

\* Variant: the empty result also forgets the stored artifacts.
NoDataClearsArtifacts ==
    /\ main_pc = "parsing"
    /\ pc = "done"
    /\ records = <<>>
    /\ message' = Some(NoDataMsg)
    /\ main_pc' = "idle"
    /\ session' = NoArtifacts
    /\ UNCHANGED <<lines, i, current_date, current_record, records, pc>>

\* if records: ... else: the empty result is shown as an error message.
NoData ==
    /\ main_pc = "parsing"
    /\ pc = "done"
    /\ records = <<>>
    /\ message' = Some(NoDataMsg)
    /\ main_pc' = "idle"
    /\ UNCHANGED <<lines, i, current_date, current_record, records, pc, session>>

\* generate_html_table or write_pdf raises outside any try block.
RenderFails ==
    /\ main_pc = "parsing"
    /\ pc = "done"
    /\ records # <<>>
    /\ message' = Some(UncaughtMsg)
    /\ main_pc' = "idle"
    /\ UNCHANGED <<lines, i, current_date, current_record, records, pc, session>>

\* The try block raises after k of its three assignments to the session.
MergeFails ==
    /\ main_pc = "parsing"
    /\ pc = "done"
    /\ records # <<>>
    /\ \E k \in 0..2 :
         session' = [pdf_bytes |-> IF k >= 1 THEN Artifact("pdf", records)
                                   ELSE session.pdf_bytes,
                     doc_bytes |-> IF k >= 2 THEN Artifact("doc", records)
                                   ELSE session.doc_bytes,
                     xls_bytes |-> session.xls_bytes]
    /\ message' = Some(MergeMsg)
    /\ main_pc' = "idle"
    /\ UNCHANGED <<lines, i, current_date, current_record, records, pc>>

\* The three documents are made from the records and stored.
Generated ==
    /\ main_pc = "parsing"
    /\ pc = "done"
    /\ records # <<>>
    /\ session' = [pdf_bytes |-> Artifact("pdf", records),
                   doc_bytes |-> Artifact("doc", records),
                   xls_bytes |-> Artifact("xls", records)]
    /\ main_pc' = "idle"
    /\ UNCHANGED <<lines, i, current_date, current_record, records, pc, message>>

MainNext ==
    \/ ClickNoUpload
    \/ ClickParse
    \/ ClickUnreadable
    \/ Step
    \/ Return
    \/ ParseError
    \/ NoData
    \/ RenderFails
    \/ MergeFails
    \/ Generated

MainSpec == MainInit /\ [][MainNext]_vars

-----------------------------------------------------------------------------
(* Properties *)

\* The loop is about to read a line.
Scanning == pc = "scan" /\ i < Len(lines)

\* The line the next iteration reads.
CurLine == LineAt(i)

\* The next iteration reads a time-stamp line inside an active date section.
AtTimeStamp == Scanning /\ Truthy(current_date) /\ MatchTime(CurLine)

\* The current record is open and has not received its triple.
PreTriple == current_record # None /\ current_record[1].B = None

HasTriple(rec) == rec.B # None /\ rec.A # None /\ rec.N # None

IsPrefix(p, q) == Len(p) <= Len(q) /\ SubSeq(q, 1, Len(p)) = p

\* C1: at every point of the scan, every record in the output list has its
\* B, A and N set.
C1_EmittedHaveTriple == \A k \in 1..Len(records) : HasTriple(records[k])

\* C2: a time-stamp line scanned in an active section while the current
\* record has no triple drops that record: the output list is unchanged.
C2_IncompleteDropped == [][AtTimeStamp /\ PreTriple => records' = records]_vars

\* C3: a time-stamp line scanned when the prior record was committed (no
\* record is open in the pre-triple state) leaves the output list as it is:
\* the committed record is neither appended again nor removed.
C3_CommittedKeptOnce == [][AtTimeStamp /\ ~PreTriple => records' = records]_vars

C3_Witness ==
    /\ lines = <<"Tuesday 04.02.2025", "18:30 Spin Class", "10/9/1 $ $ 25,50 $",
                 "18:30 Spin Class">>
    /\ i = 4
    /\ Len(records) = 1 /\ HasTriple(records[1])
    /\ current_record # None

\* C4: every step leaves the previous output list as a prefix of the new
\* one: records are appended at the end, never removed, moved or changed.
C4_AppendOnly == [][IsPrefix(records, records')]_vars

C4_Witness == Len(records) >= 2 /\ pc = "done"

\* The next iteration reads a weekday header line.
AtHeader == Scanning /\ ~IsSkip(CurLine) /\ IsDayHeader(CurLine)

\* The text after the weekday name of a header line.
HeaderRest(line) ==
    IF Len(SplitFirstWord(line)) > 1 THEN SplitFirstWord(line)[2] ELSE ""

\* C6: after a weekday header line whose date cannot be parsed (neither the
\* rest of the header nor the following line is a date) the current date is
\* none, so that no time-stamp line opens a record.
C6_UnparsableHeaderNoDate ==
    [][AtHeader /\ ~MatchDate(HeaderRest(CurLine)) /\ ~MatchDate(LineAt(i + 1))
         => ~Truthy(current_date')]_vars

C8_ScenarioA ==
    lines = ScenarioA /\ pc = "done"
      => records = <<[date |-> "04.02.2025", time |-> "18:30",
                      event |-> "Spin Class", studio |-> "Studio A",
                      B |-> Some(10), A |-> Some(8), N |-> Some(2),
                      total |-> Some("40,00")]>>

C8_Witness == lines = ScenarioA /\ pc = "done" /\ Len(records) = 1

\* C9: a weekday header without a valid date, followed by a date line, takes
\* that line as the current date and consumes it; the scan of Scenario B
\* returns one record with date 05.02.2025, event "Yoga (Beginners)", 10/9/1.
C9_SplitDateHeader ==
    /\ [][AtHeader /\ ~MatchDate(HeaderRest(CurLine)) /\ MatchDate(LineAt(i + 1))
            => i' = i + 2 /\ current_date' = Some(LineAt(i + 1))]_vars
    /\ [](lines = ScenarioB /\ pc = "done"
            => /\ Len(records) = 1
               /\ records[1].date = "05.02.2025"
               /\ records[1].event = "Yoga (Beginners)"
               /\ records[1].B = Some(10) /\ records[1].A = Some(9)
               /\ records[1].N = Some(1))

C9_Witness == lines = ScenarioB /\ pc = "done" /\ Len(records) = 1

\* The next iteration reads the line of Scenario C for an open record whose
\* event and studio are empty.
AtScenarioCLine ==
    /\ Scanning /\ Truthy(current_date) /\ current_record # None
    /\ current_record[1].event = "" /\ current_record[1].studio = ""
    /\ CurLine = "Pilates Pilates Studio B (12)"

\* C10 as stated: the line "Pilates Pilates Studio B (12)" gives the record
\* event "Pilates" and studio "Pilates Studio B (12)".
C10_DuplicateWordSplit ==
    [][AtScenarioCLine
         => current_record' = Some([current_record[1] EXCEPT
                                      !.event = "Pilates",
                                      !.studio = "Pilates Studio B (12)"])]_vars

\* C10 amended: the line "Pilates Pilates Studio B (12)" is split at the
\* capacity marker and no duplicate is found (neither the last two words nor
\* the first and last word are equal): event "Pilates Pilates Studio B",
\* studio "(12)".
C10_CapacitySplit ==
    [][AtScenarioCLine
         => current_record' = Some([current_record[1] EXCEPT
                                      !.event = "Pilates Pilates Studio B",
                                      !.studio = "(12)"])]_vars

C10_Witness ==
    /\ lines = ScenarioC /\ i = 3
    /\ current_record # None /\ current_record[1].studio = "(12)"

\* The rule that handles the line the next iteration reads.
CurBranch == Branch(CurLine, current_date, current_record)

Last(q) == q[Len(q)]

\* C11: a line handled by the triple rule appends the current record once,
\* with B, A and N set, and clears the current record in the same step,
\* with or without a total; when the text after the triple holds fewer than
\* three amounts and fewer than three segments, or the lookahead finds fewer
\* than three currency lines, the committed total is unset.
C11_TripleCommits ==
    [][Scanning /\ CurBranch = "triple"
         => /\ Len(records') = Len(records) + 1
            /\ SubSeq(records', 1, Len(records)) = records
            /\ HasTriple(Last(records'))
            /\ Last(records').date = current_record[1].date
            /\ Last(records').time = current_record[1].time
            /\ Last(records').event = current_record[1].event
            /\ current_record' = None
            /\ (LET rest == TripleRest(CurLine)
                IN \/ rest = "" /\ i' < i + 4
                   \/ /\ rest # ""
                      /\ Len(FindAmounts(rest, 1)) < 3
                      /\ Len(StripNonEmpty(SplitEuro(rest))) < 3)
                 => Last(records').total = None]_vars

\* C12: when nothing follows the triple on its line, the lookahead consumes
\* the run of at most three following lines that end with the currency
\* symbol and stops at the first that does not; the total is the third
\* consumed line without its symbol exactly when three were consumed; the
\* cursor moves past the consumed lines, so the main loop never reads them.
C12_Lookahead ==
    [][Scanning /\ CurBranch = "triple" /\ TripleRest(CurLine) = ""
         => LET n == i' - (i + 1)
            IN /\ n \in 0..3
               /\ \A k \in 1..n : i + k < Len(lines)
                                    /\ EndsWith(LineAt(i + k), Euro)
               /\ n < 3 => ~(i + 1 + n < Len(lines)
                               /\ EndsWith(LineAt(i + 1 + n), Euro))
               /\ Last(records').total =
                    IF n = 3
                    THEN Some(Strip(SubSeq(LineAt(i + 3), 1, Len(LineAt(i + 3)) - 1)))
                    ELSE None]_vars

\* B, A and N of rec are all unset or all set to natural numbers.
AllOrNone(rec) ==
    \/ rec.B = None /\ rec.A = None /\ rec.N = None
    \/ /\ rec.B # None /\ rec.A # None /\ rec.N # None
       /\ rec.B[1] \in Nat /\ rec.A[1] \in Nat /\ rec.N[1] \in Nat

\* C14: in every record, in progress or in the output list, B, A and N are
\* all unset or all set to non-negative integers.
C14_TripleAllOrNone ==
    /\ \A k \in 1..Len(records) : AllOrNone(records[k])
    /\ current_record # None => AllOrNone(current_record[1])

C14_Witness ==
    /\ Len(records) = 2
    /\ records[1].B = None /\ records[2].B = Some(10)
    /\ current_record = None

\* s is made of digits, "," and "." and holds a digit.
IsDecimalAmount(s) ==
    /\ \A k \in 1..Len(s) : IsAmountChar(Ch(s, k))
    /\ \E k \in 1..Len(s) : IsDigit(Ch(s, k))

\* C15: the total of every emitted record is unset or a decimal amount.
C15_TotalIsAmount ==
    \A k \in 1..Len(records) :
        records[k].total = None \/ IsDecimalAmount(records[k].total[1])

\* C17: a record still in progress when a weekday header line, a "Totals:"
\* line or the end of the input is reached is discarded: the output list is
\* unchanged and, at a header or "Totals:" line, no record is open after.
C17_InProgressDiscarded ==
    [][/\ Scanning /\ CurBranch \in {"header", "totals"} /\ PreTriple
          => records' = records /\ current_record' = None
       /\ pc = "scan" /\ i >= Len(lines) /\ PreTriple
          => records' = records /\ pc' = "done"]_vars

\* A header line discarded the first record and the end of the input the
\* second.
C17_Witness ==
    /\ lines = <<"Tuesday 04.02.2025", "18:30 Spin Class", "Tuesday 04.02.2025",
                 "18:30 Spin Class">>
    /\ pc = "done"
    /\ records = <<>> /\ current_record # None

\* C18: a record is open only while a date is active, and its date field is
\* the current date.
C18_RecordInsideSection ==
    current_record # None
      => Truthy(current_date) /\ current_record[1].date = current_date[1]

C18_Witness ==
    current_record # None /\ current_date = Some("05.02.2025")

\* C19: a blank line or a boilerplate label read by the main loop leaves the
\* current date, the current record and the output list unchanged.
C19_SkipChangesNothing ==
    [][Scanning /\ (CurLine = "" \/ CurLine \in skip_lines)
         => UNCHANGED <<current_date, current_record, records>> /\ i' = i + 1]_vars

C19_Witness ==
    /\ lines = ContinuationPrefix \o <<"Studio", "">>
    /\ i = 4
    /\ current_record # None
    /\ current_record[1].event = "" /\ current_record[1].studio = ""

\* C20: a line that is not blank, boilerplate, a weekday header or a
\* "Totals:" line changes nothing when no date is active, and nothing when
\* a date is active, no record is open and the line is not a time-stamp line.
C20_IgnoredOutsideRecord ==
    [][Scanning /\ CurBranch \in {"outside", "idle"}
         => UNCHANGED <<current_date, current_record, records>> /\ i' = i + 1]_vars

\* A triple line was read with a date active and no record open.
C20_Witness ==
    /\ lines = <<"Tuesday 04.02.2025", "10/9/1 $ $ 25,50 $">>
    /\ i = 2
    /\ records = <<>> /\ current_record = None

\* C13: no line content makes the scan fail: no iteration raises, and every
\* step of a scan that has not returned either moves the cursor forward
\* within the input or, at its end, returns the output list.
C13_NeverFails ==
    /\ [](pc \in {"scan", "done"} /\ i \in 0..Len(lines))
    /\ [][pc = "scan"
            => \/ pc' = "scan" /\ i < i' /\ i' <= Len(lines)
               \/ pc' = "done" /\ i >= Len(lines) /\ records' = records]_vars

\* C16: in main, a failure of parse_payroll_pdf is shown as the processing
\* error and ends the run, an empty record list is shown as the distinct
\* "no payroll data extracted" message by the normal path and never by the
\* exception handler, and in both cases the stored artifacts pdf_bytes,
\* doc_bytes and xls_bytes keep their values.
C16_FailureKeepsArtifacts ==
    [][/\ main_pc = "parsing" /\ pc = "error"
            => message' = Some(ProcessingMsg) /\ main_pc' = "idle"
       /\ main_pc = "parsing" /\ pc = "done" /\ records = <<>>
            => message' = Some(NoDataMsg) /\ main_pc' = "idle"
       /\ message' = Some(NoDataMsg) /\ message # message'
            => pc = "done" /\ records = <<>>
       /\ message' = Some(ProcessingMsg) /\ message # message'
            => pc = "error"
       /\ message' \in {Some(ProcessingMsg), Some(NoDataMsg)}
            => session' = session]_vars

\* An empty result is reported while the artifacts of an earlier run are
\* still stored.
C16_Witness ==
    /\ message = Some(NoDataMsg)
    /\ main_pc = "idle"
    /\ records = <<>>
    /\ session.pdf_bytes # None /\ session.doc_bytes # None /\ session.xls_bytes # None

\* The shapes of a trimmed line, each tested on its own.
SkipShape(line) == line = "" \/ line \in skip_lines
HeaderShape(line) == line # "" /\ SplitFirstWord(line)[1] \in day_names
TotalsShape(line) == StartsWith(line, "Totals:")
TimeShape(line) == MatchTime(line)

\* C21: the shapes are tested in the order skip, weekday header, Totals,
\* time-stamp, continuation, and the first that matches handles the line: a
\* skip line changes nothing; otherwise a line whose first word is a weekday
\* name assigns the date and discards the open record without emitting
\* anything, even when a record is open and the line holds a triple;
\* otherwise a "Totals:" line ends the section; otherwise, inside a section,
\* a time-stamp line opens a fresh record.
C21_ShapePrecedence ==
    [][Scanning =>
         LET line == CurLine
         IN IF SkipShape(line)
            THEN UNCHANGED <<current_date, current_record, records>> /\ i' = i + 1
            ELSE IF HeaderShape(line)
            THEN /\ current_date' # None
                 /\ current_record' = None
                 /\ records' = records
                 /\ i' \in {i + 1, i + 2}
            ELSE IF TotalsShape(line)
            THEN /\ current_date' = None
                 /\ current_record' = None
                 /\ records' = records
                 /\ i' = i + 1
            ELSE IF Truthy(current_date) /\ TimeShape(line)
            THEN /\ current_date' = current_date
                 /\ current_record' # None
                 /\ current_record'[1].date = current_date[1]
                 /\ current_record'[1].time = SplitFirstBlank(line)[1]
                 /\ current_record'[1].studio = ""
                 /\ current_record'[1].B = None
                 /\ current_record'[1].total = None
                 /\ \A k \in 1..Len(records') : ~HasTriple(records'[k]) \/ k <= Len(records)
                 /\ i' = i + 1
            ELSE TRUE]_vars

\* A weekday header that holds a triple was read while a record was open.
C21_Witness ==
    /\ lines = PrecedencePrefix \o <<"Friday 10/9/1">>
    /\ i = 3
    /\ current_date = Some("10/9/1")
    /\ current_record = None
    /\ records = <<>>

\* C22: when text follows the triple on its line, the record is committed
\* with the third amount of that text as total if the text holds at least
\* three amounts followed by the currency symbol, otherwise with its third
\* non-empty segment between currency symbols if there are at least three,
\* otherwise with no total; the cursor moves past the triple line only, so
\* the lookahead consumes no following line.
C22_InlinePriority ==
    [][Scanning /\ CurBranch = "triple" /\ TripleRest(CurLine) # ""
         => LET rest == TripleRest(CurLine)
                amounts == FindAmounts(rest, 1)
                segments == StripNonEmpty(SplitEuro(rest))
            IN /\ i' = i + 1
               /\ Len(records') = Len(records) + 1
               /\ Last(records').total =
                    IF Len(amounts) >= 3 THEN Some(amounts[3])
                    ELSE IF Len(segments) >= 3 THEN Some(segments[3])
                    ELSE None
               /\ rest = "x $ 5,00 $ 10,00 $ 40,00 $"
                    => Last(records').total = Some("40,00")
               /\ rest = "x $ y $ z $" => Last(records').total = Some("z")
               /\ rest = "7 $" => Last(records').total = None]_vars

\* C23: the scan terminates and consumes every line exactly once: the cursor
\* stays within 0..len(lines); every iteration moves it forward by one to
\* four lines, so len(lines) - i decreases until the loop ends; the lines an
\* iteration takes beyond the one the main loop read are the date line after
\* a weekday header or the currency lines after a triple; and the scan ends
\* only with the cursor at len(lines), by returning the output list.
C23_CursorProgress ==
    /\ [](i \in 0..Len(lines))
    /\ [][pc = "scan" /\ i < Len(lines)
            => /\ pc' = "scan"
               /\ i' - i \in 1..4
               /\ i' <= Len(lines)
               /\ i' - i > 1
                    => \/ /\ HeaderShape(CurLine)
                          /\ i' = i + 2
                          /\ MatchDate(LineAt(i + 1))
                       \/ /\ CurBranch = "triple"
                          /\ \A k \in 1..(i' - i - 1) : EndsWith(LineAt(i + k), Euro)]_vars
    /\ [][pc = "scan" /\ pc' # "scan" => pc' = "done" /\ i = Len(lines) /\ i' = i]_vars
    /\ [](pc # "scan" => pc = "done" /\ i = Len(lines))

\* C24: between two loop iterations an open current record has B, A, N and
\* total unset; the step that appends a record with its triple leaves no
\* current record; so a time-stamp line read with a record open finds B
\* unset.
C24_OpenIsPreTriple ==
    /\ [](current_record # None
            => /\ current_record[1].B = None
               /\ current_record[1].A = None
               /\ current_record[1].N = None
               /\ current_record[1].total = None)
    /\ [][Len(records') > Len(records) /\ HasTriple(Last(records'))
            => current_record' = None]_vars
    /\ [](AtTimeStamp /\ current_record # None => current_record[1].B = None)

\* A record was committed with its triple and the next time-stamp line has
\* opened another.
C24_Witness ==
    /\ lines = <<"Tuesday 04.02.2025", "18:30 Spin Class", "10/9/1 $ $ 25,50 $",
                 "18:30 Spin Class">>
    /\ i = 4
    /\ Len(records) = 1 /\ HasTriple(records[1])
    /\ PreTriple

\* The cursor values, from k on and below the current cursor, at which the
\* main loop read a time-stamp line inside an active section, in scan order;
\* d, c, r are the scanner's locals at cursor k.
RECURSIVE Opened(_, _, _, _)
Opened(k, d, c, r) ==
    IF k >= i THEN <<>>
    ELSE (IF Branch(LineAt(k), d, c) = "time" THEN <<k>> ELSE <<>>)
           \o Opened(LoopBody(k, d, c, r).i, LoopBody(k, d, c, r).date,
                     LoopBody(k, d, c, r).cur, LoopBody(k, d, c, r).recs)

\* The time-stamp lines scanned so far inside active sections.
OpenedSoFar == Opened(0, None, None, <<>>)

\* rec was opened by the time-stamp line read at cursor k.
OpenedBy(rec, k) ==
    LET parts_time == SplitFirstBlank(LineAt(k))
    IN /\ rec.time = parts_time[1]
       /\ Len(parts_time) > 1 /\ Strip(parts_time[2]) # ""
            => StartsWith(rec.event, Strip(parts_time[2]))

\* records[rk..] can be assigned, in order, to distinct lines among
\* ops[ok..last], each record to a line that opened it.
RECURSIVE Embeds(_, _, _, _)
Embeds(rk, ops, ok, last) ==
    IF rk > Len(records) THEN TRUE
    ELSE IF ok > last THEN FALSE
    ELSE IF OpenedBy(records[rk], ops[ok]) THEN Embeds(rk + 1, ops, ok + 1, last)
    ELSE Embeds(rk, ops, ok + 1, last)

\* C25: the records of the output list can be assigned, in their order, to
\* distinct time-stamp lines scanned so far inside active sections, each to
\* a line that opened it, and an open current record belongs to the last
\* such line, which has no record in the list yet; hence the list never
\* holds more records than such lines, and no step adds more than one.
C25_OneRecordPerTimeStamp ==
    /\ [](LET ops == OpenedSoFar
          IN /\ Len(records) <= Len(ops)
             /\ IF current_record # None
                THEN /\ ops # <<>>
                     /\ OpenedBy(current_record[1], Last(ops))
                     /\ Embeds(1, ops, 1, Len(ops) - 1)
                ELSE Embeds(1, ops, 1, Len(ops)))
    /\ [][Len(records') <= Len(records) + 1]_vars

\* Two time-stamp lines with different times have each contributed their
\* record, in the order of the lines.
C25_Witness ==
    /\ lines = InlinePrefix \o <<"1/2/3 7 $", "18:30 Spin Class", "1/2/3 7 $">>
    /\ i = 5
    /\ Len(records) = 2
    /\ records[1].time = "20:00" /\ records[2].time = "18:30"
    /\ OpenedSoFar = <<1, 3>>

====
